---- MODULE Spec2Model ----
(***************************************************************************)
(* Beam / Bridge Analysis Tool (src/app.py): reactions, shear force,       *)
(* bending moment and deflection of a simply supported beam.               *)
(*                                                                         *)
(* The script is a straight-line program.  One run is modelled as the      *)
(* sequence of its sections: sidebar inputs, domain, shear and moment,     *)
(* deflection, display.  pc names the section that runs next.              *)
(*                                                                         *)
(* Numbers.  The script computes with Python floats.  The model computes   *)
(* with exact rationals <<n, d>> (d > 0, lowest terms): the discretisation *)
(* error of the trapezoid rule and of the sampled step function is kept    *)
(* exactly as the code produces it, the rounding error of the individual   *)
(* float operations is not modelled.                                       *)
(*                                                                         *)
(* Sequences.  A numpy array of N entries is a sequence 1..N: the code's   *)
(* index i is the model's index i + 1, the code's [-1] is the model's [N]. *)
(***************************************************************************)
EXTENDS Integers, Sequences, FiniteSets

(***************************************************************************)
(* Bounds of the model.                                                    *)
(***************************************************************************)
\* largest sample count tried (the slider offers 100..2000; the model runs
\* the same code on grids of MinPts..MaxPts points)
MaxPts == 4
\* largest load magnitude tried, in kN and in kN/m
MaxLoadKN == 2

(***************************************************************************)
(* Exact rational arithmetic, standing for the float operators.            *)
(***************************************************************************)
Abs(n) == IF n < 0 THEN -n ELSE n

RECURSIVE GCD(_, _)
GCD(m, n) == IF n = 0 THEN m ELSE GCD(n, m % n)

Norm(n, d) ==
    LET g == GCD(Abs(n), d)
    IN  <<n \div g, d \div g>>

Rat(k) == <<k, 1>>

Zero == <<0, 1>>

RNeg(p) == <<-p[1], p[2]>>

RAdd(p, q) ==
    LET g == GCD(p[2], q[2])
        l == (p[2] \div g) * q[2]
    IN  Norm(p[1] * (l \div p[2]) + q[1] * (l \div q[2]), l)

RSub(p, q) == RAdd(p, RNeg(q))

RMul(p, q) ==
    IF p[1] = 0 \/ q[1] = 0 THEN Zero
    ELSE LET g1 == GCD(Abs(p[1]), q[2])
             g2 == GCD(Abs(q[1]), p[2])
         IN  <<(p[1] \div g1) * (q[1] \div g2), (p[2] \div g2) * (q[2] \div g1)>>

\* q # 0: the divisors of the script are L, E * I and 2.0
RDiv(p, q) ==
    RMul(p, IF q[1] > 0 THEN <<q[2], q[1]>> ELSE <<-q[2], -q[1]>>)

RLt(p, q) ==
    LET g == GCD(p[2], q[2])
    IN  p[1] * (q[2] \div g) < q[1] * (p[2] \div g)

RLe(p, q) == ~RLt(q, p)

RAbs(p) == <<Abs(p[1]), p[2]>>

\* Python truthiness of a float: `if P2`
Truthy(p) == p[1] # 0

\* Python None
None == <<>>

(***************************************************************************)
(* Unit conversions of the sidebar.                                        *)
(***************************************************************************)
KN == 1000
GPA == 1000000000

(***************************************************************************)
(* numpy / scipy operations the script calls.                              *)
(***************************************************************************)
\* np.linspace(0, L, n): n evenly spaced samples, x[0] = 0, x[n-1] = L
linspace(stop, n) ==
    [i \in 1..n |-> RDiv(RMul(Rat(i - 1), stop), Rat(n - 1))]

\* Variant of cumtrapzUpTo: right-rectangle rule instead of the trapezoid
RECURSIVE cumtrapz_Rectangle(_, _, _)
cumtrapz_Rectangle(f, xs, k) ==
    IF k = 1 THEN <<Zero>>
    ELSE LET prev == cumtrapz_Rectangle(f, xs, k - 1)
             d    == RSub(xs[k], xs[k - 1])
         IN  Append(prev, RAdd(prev[k - 1], RMul(d, f[k])))

\* cumtrapz(f, xs, initial=0.0): cumulative trapezoid rule
RECURSIVE cumtrapzUpTo(_, _, _)
cumtrapzUpTo(f, xs, k) ==
    IF k = 1 THEN <<Zero>>
    ELSE LET prev == cumtrapzUpTo(f, xs, k - 1)
             d    == RSub(xs[k], xs[k - 1])
             area == RDiv(RMul(d, RAdd(f[k], f[k - 1])), Rat(2))
         IN  Append(prev, RAdd(prev[k - 1], area))

cumtrapz(f, xs) == cumtrapzUpTo(f, xs, Len(xs))

\* np.min / np.max of a non-empty array
RECURSIVE npMinUpTo(_, _)
npMinUpTo(s, k) ==
    IF k = 1 THEN s[1]
    ELSE LET m == npMinUpTo(s, k - 1)
         IN  IF RLt(s[k], m) THEN s[k] ELSE m

npMin(s) == npMinUpTo(s, Len(s))

RECURSIVE npMaxUpTo(_, _)
npMaxUpTo(s, k) ==
    IF k = 1 THEN s[1]
    ELSE LET m == npMaxUpTo(s, k - 1)
         IN  IF RLt(m, s[k]) THEN s[k] ELSE m

npMax(s) == npMaxUpTo(s, Len(s))

npAbs(s) == [i \in 1..Len(s) |-> RAbs(s[i])]

\* np.argmax: the first index holding the maximum (1-based here)
npArgmax(s) ==
    CHOOSE i \in 1..Len(s) :
        /\ s[i] = npMax(s)
        /\ \A j \in 1..(i - 1) : s[j] # s[i]

\* Variant of whereBelow: xs <= pos, the step open on the right
whereBelow_LeftClosed(xs, pos, v, load) ==
    [i \in 1..Len(xs) |-> IF RLe(xs[i], pos) THEN v[i] ELSE RSub(v[i], load)]

\* np.where(xs < pos, v, v - load)
whereBelow(xs, pos, v, load) ==
    [i \in 1..Len(xs) |-> IF RLt(xs[i], pos) THEN v[i] ELSE RSub(v[i], load)]

(***************************************************************************)
(* Values the sidebar widgets are driven through.                          *)
(***************************************************************************)
\* Beam length L (m): number_input, min_value 0.1
LValues == {Rat(2), Rat(3)}

\* Young's modulus (GPa): number_input, min_value 0.1
E_gpaValues == {Rat(1), Rat(2)}

\* Moment of inertia (m^4): number_input, min_value 1e-9
IValues == {<<3, GPA>>}

\* Load magnitudes (kN, kN/m): number_input, min_value 0.0
LoadValues == {Rat(k) : k \in 0..MaxLoadKN}

\* Slider positions as fractions of the span: min_value 0.0, max_value L
PosFractions ==
    {<<0, 1>>, <<1, 6>>, <<1, 4>>, <<1, 3>>, <<1, 2>>,
     <<2, 3>>, <<3, 4>>, <<5, 6>>, <<1, 1>>}

\* Plot resolution (points): slider
MinPts == 2
PtsValues == MinPts..MaxPts

VARIABLES
    pc,               \* the section of the script that runs next
    L, E, I,          \* beam properties
    load_case,        \* "Point Load" or "UDL"
    P, a, P2, a2,     \* point loads (N) and positions (m); a2 may be None
    w,                \* distributed load (N/m)
    npts,             \* number of samples
    x,                \* sample positions
    R1, R2,           \* support reactions
    V, M,             \* shear and moment at the samples
    slope, y_unnormalized, C1,
    y,                \* deflection at the samples
    max_deflection, max_deflection_abs,
    imax              \* index of the largest |y| (1-based)

inputVars == <<L, E, I, load_case, P, a, P2, a2, w, npts>>
forceVars == <<R1, R2, V, M>>
deflVars  == <<slope, y_unnormalized, C1, y, max_deflection, max_deflection_abs>>
vars == <<pc, inputVars, x, forceVars, deflVars, imax>>

\* Before the run nothing is bound yet.
Init ==
    /\ pc = "sidebar"
    /\ L = Zero /\ E = Zero /\ I = Zero
    /\ load_case = ""
    /\ P = Zero /\ a = Zero /\ P2 = Zero /\ a2 = None
    /\ w = Zero
    /\ npts = 0
    /\ x = <<>>
    /\ R1 = Zero /\ R2 = Zero /\ V = <<>> /\ M = <<>>
    /\ slope = <<>> /\ y_unnormalized = <<>> /\ C1 = Zero /\ y = <<>>
    /\ max_deflection = Zero /\ max_deflection_abs = Zero
    /\ imax = 0

(***************************************************************************)
(* Sidebar: inputs (lines 18-45).                                          *)
(***************************************************************************)
BeamProperties ==
    /\ L' \in LValues
    /\ \E E_gpa \in E_gpaValues : E' = RMul(E_gpa, Rat(GPA))
    /\ I' \in IValues
    /\ npts' \in PtsValues

\* load_case == "Point Load", the checkbox "Add second point load" clear
SidebarPointLoad ==
    /\ pc = "sidebar"
    /\ BeamProperties
    /\ load_case' = "Point Load"
    /\ \E P_kn \in LoadValues : P' = RMul(P_kn, Rat(KN))
    /\ \E f \in PosFractions : a' = RMul(f, L')
    /\ P2' = Zero
    /\ a2' = None
    /\ pc' = "domain"
    /\ UNCHANGED <<w, x, forceVars, deflVars, imax>>

\* load_case == "Point Load", the checkbox "Add second point load" set
SidebarSecondLoad ==
    /\ pc = "sidebar"
    /\ BeamProperties
    /\ load_case' = "Point Load"
    /\ \E P_kn \in LoadValues : P' = RMul(P_kn, Rat(KN))
    /\ \E f \in PosFractions : a' = RMul(f, L')
    /\ \E P2_kn \in LoadValues : P2' = RMul(P2_kn, Rat(KN))
    /\ \E f \in PosFractions : a2' = RMul(f, L')
    /\ pc' = "domain"
    /\ UNCHANGED <<w, x, forceVars, deflVars, imax>>

\* load_case == "Uniformly Distributed Load (UDL)"
SidebarUDL ==
    /\ pc = "sidebar"
    /\ BeamProperties
    /\ load_case' = "UDL"
    /\ \E w_knm \in LoadValues : w' = RMul(w_knm, Rat(KN))
    /\ pc' = "domain"
    /\ UNCHANGED <<P, a, P2, a2, x, forceVars, deflVars, imax>>

(***************************************************************************)
(* Domain (line 50).                                                       *)
(***************************************************************************)
Domain ==
    /\ pc = "domain"
    /\ x' = linspace(L, npts)
    /\ pc' = "forces"
    /\ UNCHANGED <<inputVars, forceVars, deflVars, imax>>

(***************************************************************************)
(* Shear V(x) and moment M(x) (lines 55-86).                               *)
(***************************************************************************)
\* Variant of PointReactions: R1 = P - R2, the second load left out of the total
PointReactions_DropsSecond(p, pos, p2, pos2, len) ==
    LET moment_about_left ==
            RAdd(RMul(p, pos), IF Truthy(p2) THEN RMul(p2, pos2) ELSE Zero)
        r2 == RDiv(moment_about_left, len)
    IN  <<RSub(p, r2), r2>>

\* Variant of PointReactions: the second load taken at the first load's position
PointReactions_SharedArm(p, pos, p2, pos2, len) ==
    LET moment_about_left ==
            RAdd(RMul(p, pos), IF Truthy(p2) THEN RMul(p2, pos) ELSE Zero)
        r2 == RDiv(moment_about_left, len)
    IN  <<RSub(RAdd(p, p2), r2), r2>>

\* Variant of PointReactions: the two supports exchanged
PointReactions_Swapped(p, pos, p2, pos2, len) ==
    LET moment_about_left ==
            RAdd(RMul(p, pos), IF Truthy(p2) THEN RMul(p2, pos2) ELSE Zero)
        r1 == RDiv(moment_about_left, len)
    IN  <<r1, RSub(RAdd(p, p2), r1)>>

\* Reactions of the point-load case (lines 61-68): <<R1, R2>>
PointReactions(p, pos, p2, pos2, len) ==
    LET total_load == RAdd(p, p2)
    IN  IF (Truthy(p2) /\ pos2 # None) \/ p2 = Zero
        THEN LET moment_about_left ==
                     RAdd(RMul(p, pos),
                          IF Truthy(p2) THEN RMul(p2, pos2) ELSE Zero)
                 r2 == RDiv(moment_about_left, len)
             IN  <<RSub(total_load, r2), r2>>
        ELSE LET r1 == RDiv(RMul(p, RSub(len, pos)), len)
             IN  <<r1, RSub(p, r1)>>

\* Shear of the point-load case (lines 71-76)
PointShear(xs, r1, p, pos, p2, pos2) ==
    LET V0 == [i \in 1..Len(xs) |-> r1]
    IN  IF Truthy(p2)
        THEN whereBelow(xs, pos2, whereBelow(xs, pos, V0, p), p2)
        ELSE whereBelow(xs, pos, V0, p)

PointLoadForces ==
    /\ pc = "forces"
    /\ load_case = "Point Load"
    /\ LET R == PointReactions(P, a, P2, a2, L)
           shear == PointShear(x, R[1], P, a, P2, a2)
       IN  /\ R1' = R[1]
           /\ R2' = R[2]
           /\ V' = shear
           /\ M' = cumtrapz(shear, x)
    /\ pc' = "deflection"
    /\ UNCHANGED <<inputVars, x, deflVars, imax>>

\* Variant of UDLReaction: the whole load on each support
UDLReaction_NoHalf(load, len) == RMul(load, len)

\* Reaction of the distributed case (line 84): R1 = R2
UDLReaction(load, len) == RDiv(RMul(load, len), Rat(2))

\* Shear of the distributed case (line 85)
UDLShear(xs, r1, load) ==
    [i \in 1..Len(xs) |-> RSub(r1, RMul(load, xs[i]))]

UDLForces ==
    /\ pc = "forces"
    /\ load_case = "UDL"
    /\ LET r == UDLReaction(w, L)
           shear == UDLShear(x, r, w)
       IN  /\ R1' = r
           /\ R2' = r
           /\ V' = shear
           /\ M' = cumtrapz(shear, x)
    /\ pc' = "deflection"
    /\ UNCHANGED <<inputVars, x, deflVars, imax>>

(***************************************************************************)
(* Deflection (lines 93-105).                                              *)
(***************************************************************************)
\* Variant of SlopeConstant: the negation left out
SlopeConstant_NoNegation(yu, len) == RDiv(yu[Len(yu)], len)

\* Integration constant of the slope (line 100)
SlopeConstant(yu, len) == RDiv(RNeg(yu[Len(yu)]), len)

\* Variant of Normalised: the slope constant added without the factor x
Normalised_Unscaled(yu, c1, xs) ==
    [i \in 1..Len(xs) |-> RAdd(yu[i], c1)]

\* Final deflection (line 101)
Normalised(yu, c1, xs) ==
    [i \in 1..Len(xs) |-> RAdd(yu[i], RMul(c1, xs[i]))]

\* Signed extreme deflection (line 104)
SignedExtreme(ys) ==
    IF RLt(npMin(ys), Zero) THEN npMin(ys) ELSE npMax(ys)

\* Largest |y| (line 105)
AbsExtreme(ys) == npMax(npAbs(ys))

Deflection ==
    /\ pc = "deflection"
    /\ LET EI == RMul(E, I)
           curvature == [i \in 1..Len(M) |-> RDiv(M[i], EI)]
           sl == cumtrapz(curvature, x)
           yu == cumtrapz(sl, x)
           c1 == SlopeConstant(yu, L)
           ys == Normalised(yu, c1, x)
       IN  /\ slope' = sl
           /\ y_unnormalized' = yu
           /\ C1' = c1
           /\ y' = ys
           /\ max_deflection' = SignedExtreme(ys)
           /\ max_deflection_abs' = AbsExtreme(ys)
    /\ pc' = "display"
    /\ UNCHANGED <<inputVars, x, forceVars, imax>>

(***************************************************************************)
(* Display (lines 110-122): location of the largest deflection.            *)
(***************************************************************************)
\* Variant of MaxLocation: the last index holding the maximum
MaxLocation_Last(ys) ==
    CHOOSE i \in 1..Len(ys) :
        /\ RAbs(ys[i]) = npMax(npAbs(ys))
        /\ \A j \in (i + 1)..Len(ys) : RAbs(ys[j]) # RAbs(ys[i])

\* Index of the largest |y| (line 116)
MaxLocation(ys) == npArgmax(npAbs(ys))

Display ==
    /\ pc = "display"
    /\ imax' = MaxLocation(y)
    /\ pc' = "done"
    /\ UNCHANGED <<inputVars, x, forceVars, deflVars>>

Next ==
    \/ SidebarPointLoad
    \/ SidebarSecondLoad
    \/ SidebarUDL
    \/ Domain
    \/ PointLoadForces
    \/ UDLForces
    \/ Deflection
    \/ Display

Spec == Init /\ [][Next]_vars

(***************************************************************************)
(* Vocabulary of the properties.                                           *)
(***************************************************************************)
ForcesDone == pc \in {"deflection", "display", "done"}
DeflectionDone == pc \in {"display", "done"}
PointCase == load_case = "Point Load"
UDLCase == load_case = "UDL"
SingleLoad == PointCase /\ a2 = None
TwoLoads == PointCase /\ a2 # None

\* sample spacing L / (N - 1)
dx == RDiv(L, Rat(npts - 1))

\* moment of the second load about the left support (no second load: 0)
SecondMoment == IF a2 = None THEN Zero ELSE RMul(P2, a2)

\* the magnitude of a point load once its position is reached
LoadAt(load, pos, xi) == IF pos # None /\ RLe(pos, xi) THEN load ELSE Zero

\* some sample lies exactly at position pos
OnSample(pos) == \E i \in 1..npts : x[i] = pos

(***************************************************************************)
(* C1. Force balance: the reactions add up to the applied load,            *)
(* R1 + R2 = P + P2 in the point-load case (P2 = 0 without a second load)  *)
(* and R1 + R2 = w * L in the distributed case.                            *)
(***************************************************************************)
C1_ForceBalance ==
    ForcesDone =>
        /\ PointCase => RAdd(R1, R2) = RAdd(P, P2)
        /\ UDLCase => RAdd(R1, R2) = RMul(w, L)

\* two loads of different size at different places, both supports loaded
C1_Witness ==
    /\ ForcesDone /\ TwoLoads
    /\ Truthy(P) /\ Truthy(P2) /\ P # P2 /\ a # a2
    /\ Truthy(R1) /\ Truthy(R2) /\ R1 # R2

(***************************************************************************)
(* C2. Moment balance about the left support: R2 * L = P*a + P2*a2 in the  *)
(* point-load case (one load, two loads, or a second load of magnitude 0)  *)
(* and R2 * L = w * L * (L / 2) in the distributed case.                   *)
(***************************************************************************)
C2_MomentBalance ==
    ForcesDone =>
        /\ PointCase => RMul(R2, L) = RAdd(RMul(P, a), SecondMoment)
        /\ UDLCase => RMul(R2, L) = RMul(RMul(w, L), RDiv(L, Rat(2)))

\* two loads at different places, the second one carrying moment
C2_Witness ==
    /\ ForcesDone /\ TwoLoads
    /\ Truthy(P) /\ Truthy(P2) /\ Truthy(a) /\ Truthy(a2) /\ a # a2

\* the second load entered with magnitude 0 away from the left support
C2_ZeroSecondLoadReached ==
    ForcesDone /\ TwoLoads /\ P2 = Zero /\ Truthy(a2) /\ Truthy(P) /\ Truthy(a)

(***************************************************************************)
(* C3. Boundary conditions: the final deflection is exactly 0 at both      *)
(* ends, y[0] = 0 and y[N-1] = 0, for every load configuration and sample  *)
(* count.                                                                  *)
(***************************************************************************)
C3_BoundaryConditions ==
    DeflectionDone => y[1] = Zero /\ y[npts] = Zero

\* the correction is needed (the unnormalised curve misses the right end)
\* and the beam deflects
C3_Witness ==
    /\ DeflectionDone
    /\ Truthy(y_unnormalized[npts]) /\ Truthy(C1)
    /\ \E i \in 1..npts : Truthy(y[i])

(***************************************************************************)
(* C4 as claimed: in every point-load configuration the moment is 0 at     *)
(* both ends, M[0] = 0 and M[N-1] = 0.                                     *)
(***************************************************************************)
C4_MomentEndsZero ==
    (ForcesDone /\ PointCase) => M[1] = Zero /\ M[npts] = Zero

(***************************************************************************)
(* C4 amended: M[0] = 0, and the end value M[N-1] is within half a sample  *)
(* spacing times the total load of 0:                                      *)
(* |M[N-1]| <= (P + P2) * L / (2 * (N - 1)).                               *)
(***************************************************************************)
C4_MomentEndsBounded ==
    (ForcesDone /\ PointCase) =>
        /\ M[1] = Zero
        /\ RLe(RAbs(M[npts]), RDiv(RMul(RAdd(P, P2), dx), Rat(2)))

\* a point-load run whose moment does not return to 0 at the right end
C4_Witness ==
    ForcesDone /\ PointCase /\ Truthy(M[npts])

(***************************************************************************)
(* C5. Point-load shear is a right-closed step function: at every sample   *)
(* V[i] = R1 minus every point load whose position is <= x[i]; a sample    *)
(* exactly at a load position already has that load subtracted.            *)
(***************************************************************************)
C5_ShearStep ==
    (ForcesDone /\ PointCase) =>
        \A i \in 1..npts :
            V[i] = RSub(RSub(R1, LoadAt(P, a, x[i])), LoadAt(P2, a2, x[i]))

\* two loads, the second before the first, one of them exactly at an inner
\* sample
C5_Witness ==
    /\ ForcesDone /\ TwoLoads /\ Truthy(P) /\ Truthy(P2)
    /\ RLt(a2, a)
    /\ \E i \in 2..(npts - 1) : x[i] = a /\ V[i] = RSub(RSub(R1, P), P2)

\* two loads at the same sample
C5_SamePositionReached ==
    /\ ForcesDone /\ TwoLoads /\ Truthy(P) /\ Truthy(P2) /\ a = a2
    /\ \E i \in 2..(npts - 1) : x[i] = a

(***************************************************************************)
(* C7. Load over a support: a single point load at a = 0 gives R1 = P,     *)
(* R2 = 0, M = 0 at every sample and y = 0 at every sample; a single point *)
(* load at a = L goes entirely into the right reaction, R2 = P, R1 = 0.    *)
(***************************************************************************)
C7_LoadOverSupport ==
    (DeflectionDone /\ SingleLoad) =>
        /\ a = Zero =>
              /\ R1 = P /\ R2 = Zero
              /\ \A i \in 1..npts : M[i] = Zero /\ y[i] = Zero
        /\ a = L => R2 = P /\ R1 = Zero

\* a non-zero load over the left support, on a grid with inner samples
C7_Witness ==
    DeflectionDone /\ SingleLoad /\ a = Zero /\ Truthy(P) /\ npts >= 3

\* a non-zero load over the right support
C7_RightSupportReached ==
    DeflectionDone /\ SingleLoad /\ a = L /\ Truthy(P) /\ npts >= 3

(***************************************************************************)
(* C8. Symmetric two-load case: two point loads of equal magnitude P at a  *)
(* and a2 = L - a give R1 = R2 = P, and the deflection is symmetric about  *)
(* midspan within integration tolerance: y[i] = y[N-1-i] exactly when no   *)
(* load lies on a sample, and in every case                                *)
(* |y[i] - y[N-1-i]| <= P * dx * L^2 / (16 * E * I), dx = L / (N - 1).     *)
(***************************************************************************)
SymmetricLoads == TwoLoads /\ P = P2 /\ a2 = RSub(L, a)

Asymmetry(i) == RAbs(RSub(y[i], y[npts + 1 - i]))

SymmetryTolerance ==
    RDiv(RMul(RMul(P, dx), RMul(L, L)), RMul(Rat(16), RMul(E, I)))

C8_SymmetricLoads ==
    (DeflectionDone /\ SymmetricLoads) =>
        /\ R1 = P /\ R2 = P
        /\ \A i \in 1..npts : RLe(Asymmetry(i), SymmetryTolerance)
        /\ (~OnSample(a) /\ ~OnSample(a2)) =>
               \A i \in 1..npts : y[i] = y[npts + 1 - i]

\* equal loads at distinct mirrored positions between the samples, the
\* beam deflecting
C8_Witness ==
    /\ DeflectionDone /\ SymmetricLoads /\ Truthy(P) /\ a # a2
    /\ npts >= 4 /\ ~OnSample(a) /\ ~OnSample(a2)
    /\ \E i \in 1..npts : Truthy(y[i])

\* equal mirrored loads on samples: the curve is symmetric only within the
\* tolerance
C8_ToleranceNeededReached ==
    /\ DeflectionDone /\ SymmetricLoads
    /\ \E i \in 1..npts : Truthy(Asymmetry(i))

(***************************************************************************)
(* C9. Distributed-load shear: R1 = R2 = w * L / 2 whatever the sample     *)
(* count, V[i] = R1 - w * x[i] at every sample, V[0] = R1, V[N-1] = -R2,   *)
(* and V is non-increasing along the span.                                 *)
(***************************************************************************)
C9_UDLShear ==
    (ForcesDone /\ UDLCase) =>
        /\ R1 = RDiv(RMul(w, L), Rat(2)) /\ R2 = R1
        /\ \A i \in 1..npts :
               V[i] = RSub(R1, RDiv(RMul(w, RMul(Rat(i - 1), L)), Rat(npts - 1)))
        /\ V[1] = R1
        /\ V[npts] = RNeg(R2)
        /\ \A i \in 1..(npts - 1) : RLe(V[i + 1], V[i])

\* a non-zero distributed load on a grid with inner samples
C9_Witness ==
    ForcesDone /\ UDLCase /\ Truthy(w) /\ npts >= 3 /\ RLt(V[npts], V[1])

(***************************************************************************)
(* C10 as claimed, its last part: the magnitude of the signed extreme      *)
(* deflection always equals the absolute-maximum deflection.               *)
(***************************************************************************)
C10_SignedExtremeIsAbsMax ==
    pc = "done" => RAbs(max_deflection) = max_deflection_abs

(***************************************************************************)
(* C10 amended: the signed extreme is the minimum of y when some y[i] is   *)
(* negative and the maximum of y otherwise; the absolute maximum is the    *)
(* largest |y[i]|; imax is the first index reaching it (index 0, x = 0,    *)
(* for an all-zero curve); the magnitude of the signed extreme is at most  *)
(* the absolute maximum, and equals it exactly when no y[i] is negative or *)
(* -min(y) >= max(y).                                                      *)
(***************************************************************************)
SomeNegative == \E i \in 1..npts : RLt(y[i], Zero)

IsMinOfY(v) ==
    /\ \E i \in 1..npts : y[i] = v
    /\ \A i \in 1..npts : RLe(v, y[i])

IsMaxOfY(v) ==
    /\ \E i \in 1..npts : y[i] = v
    /\ \A i \in 1..npts : RLe(y[i], v)

NegativeDominates ==
    \A i, j \in 1..npts : RLe(y[j], RNeg(y[i])) \/ ~IsMinOfY(y[i])

C10_Extrema ==
    pc = "done" =>
        /\ SomeNegative => IsMinOfY(max_deflection)
        /\ ~SomeNegative => IsMaxOfY(max_deflection)
        /\ \E i \in 1..npts : RAbs(y[i]) = max_deflection_abs
        /\ \A i \in 1..npts : RLe(RAbs(y[i]), max_deflection_abs)
        /\ imax \in 1..npts
        /\ RAbs(y[imax]) = max_deflection_abs
        /\ \A j \in 1..(imax - 1) : RLt(RAbs(y[j]), max_deflection_abs)
        /\ (\A i \in 1..npts : y[i] = Zero) => imax = 1 /\ x[imax] = Zero
        /\ RLe(RAbs(max_deflection), max_deflection_abs)
        /\ RAbs(max_deflection) = max_deflection_abs
               <=> (~SomeNegative \/ NegativeDominates)

\* a curve with values of both signs whose largest magnitude is positive
C10_Witness ==
    /\ pc = "done" /\ SomeNegative
    /\ RLt(RAbs(max_deflection), max_deflection_abs)

\* the largest magnitude is reached at two samples: the first one is reported
C10_TieReached ==
    /\ pc = "done" /\ Truthy(max_deflection_abs)
    /\ \E j \in (imax + 1)..npts : RAbs(y[j]) = max_deflection_abs

(***************************************************************************)
(* Validity of the configuration a run computes from.  The script has no   *)
(* validation step and no error outcome: the sidebar widgets bound every   *)
(* input (min_value, max_value), so a run only ever holds a configuration  *)
(* with L > 0, E > 0, I > 0, N >= 2, loads >= 0 and positions in [0, L].   *)
(***************************************************************************)
ValidConfiguration ==
    /\ RLt(Zero, L) /\ RLt(Zero, E) /\ RLt(Zero, I)
    /\ npts >= 2
    /\ PointCase =>
          /\ RLe(Zero, P) /\ RLe(Zero, a) /\ RLe(a, L)
          /\ RLe(Zero, P2)
          /\ a2 # None => RLe(Zero, a2) /\ RLe(a2, L)
    /\ UDLCase => RLe(Zero, w)

ComputedFromValidConfiguration == pc # "sidebar" => ValidConfiguration

====
